---- MODULE Spec2Model ----
(***************************************************************************)
(* One run of the rocket-telemetry dashboard script (src/main.py).         *)
(*                                                                         *)
(* The script runs top to bottom: it picks the data source, loads the CSV, *)
(* stops on an empty table, normalises and parses the timestamps, builds   *)
(* and renders the 3D trajectory figure, the four time-slider figures and  *)
(* the four static figures.  A Python exception ends the run (pc =         *)
(* "crashed"); st.stop() ends it too (pc = "stopped").                     *)
(*                                                                         *)
(* Row indices are 0-based as in the source; a table is a sequence, so the *)
(* row with index i is rows[i + 1].                                        *)
(***************************************************************************)
EXTENDS Integers, Sequences, FiniteSets, TLC

VARIABLES
    uploaded_file,      \* the file_uploader widget's value (line 31)
    selected_dataset,   \* the selectbox widget's value (line 28)
    reads,              \* the sources pd.read_csv was given in this run
    dataset_name,       \* line 40 / 44
    csv,                \* the rows pd.read_csv returned, as read
    df,                 \* the working table: [columns, rows]
    display,            \* what the page shows, in order: [widget, body]
    flagged,            \* the rows of the st.dataframe of line 70
    fig,                \* the figure most recently built
    called,             \* calls of create_time_slider_frames that have ended
    accessed,           \* row labels looked up while building the 3D figure
    error,              \* the exception that ended the run, if any
    pc                  \* the script's position

vars == <<uploaded_file, selected_dataset, reads, dataset_name, csv, df,
          display, flagged, fig, called, accessed, error, pc>>

-----------------------------------------------------------------------------
(* Bounds of the model *)

MaxRows == 61     \* rows of a table
MaxVaried == 12   \* rows of a table whose one irregular row is of any variant
MaxMixed == 3     \* rows of a table whose rows are each of any kind

-----------------------------------------------------------------------------
(* Literals of the source *)

MaxFrames == 30        \* n_points // 30
FirstFrame == 10       \* range(10, len(df), 5), df.lon[:10]
FrameStride == 5       \* range(10, len(df), 5)
RocketRow == 9         \* df.lon[9]
MsPerRow == 50         \* f"{k * 50} ms"

DATA_SOURCES ==
    [x \in {"Ideal Launch", "Sensor Data"} |->
        IF x = "Ideal Launch" THEN "database/ideal_rocket_launch.csv"
                              ELSE "database/sensor_data_mock.csv"]

UPLOAD == "uploaded_file"

-----------------------------------------------------------------------------
(* Small helpers *)

Max(a, b) == IF a >= b THEN a ELSE b
Min(a, b) == IF a <= b THEN a ELSE b

Digits == {"0", "1", "2", "3", "4", "5", "6", "7", "8", "9"}
DigitChars == <<"0", "1", "2", "3", "4", "5", "6", "7", "8", "9">>
Chr(d) == DigitChars[d + 1]
TwoDigits(v) == <<Chr((v \div 10) % 10), Chr(v % 10)>>

\* Python's range(start, stop, stride) for a positive stride, as a sequence.
RECURSIVE Range(_, _, _)
Range(start, stop, stride) ==
    IF start >= stop THEN <<>>
    ELSE <<start>> \o Range(start + stride, stop, stride)

Elems(s) == {s[i] : i \in 1..Len(s)}

-----------------------------------------------------------------------------
(* The CSV files the run can be given.  A row is [id, date, time]: id is   *)
(* the line's index in the file and stands for the sample's readings (lon, *)
(* lat, gps_alt, alt, acc_*, eu_*, valve_state); time is the time field as *)
(* a sequence of characters.  Sample i is taken i seconds after 12:00:00.  *)

ValidDate == "2025-06-01"

Clock(i) == <<"1", "2", ":">> \o TwoDigits(i \div 60) \o <<":">> \o TwoDigits(i % 60)

Formats == {"colon", "dot"}
Variants == {"short", "long", "newline", "plain", "baddate"}

Millis(kind) ==
    CASE kind = "colon"   -> <<":", "2", "5", "0">>        \* 12:00:07:250
      [] kind = "dot"     -> <<".", "2", "5", "0">>        \* 12:00:07.250
      [] kind = "short"   -> <<":", "2", "5">>             \* two digits
      [] kind = "long"    -> <<":", "2", "5", "0", "0">>   \* four digits
      [] kind = "newline" -> <<":", "2", "5", "0", "\n">>  \* a quoted field ending in a newline
      [] kind = "plain"   -> <<>>                          \* no milliseconds
      [] kind = "baddate" -> <<":", "2", "5", "0">>

FileRow(i, kind) ==
    [id |-> i,
     date |-> IF kind = "baddate" THEN "n/a" ELSE ValidDate,
     time |-> Clock(i) \o Millis(kind)]

\* n rows written in format fmt, the row with index p - 1 (if p > 0) written as variant v
Table(n, fmt, p, v) ==
    [i \in 1..n |-> IF i = p THEN FileRow(i - 1, v) ELSE FileRow(i - 1, fmt)]

\* every row in the same format
Regular(fmt) == {Table(n, fmt, 0, "plain") : n \in 0..MaxRows}

\* one row with a two-digit millisecond field, anywhere
OneMalformed ==
    UNION {{Table(n, "colon", p, "short") : p \in 1..n} : n \in 1..MaxRows}

\* one irregular row of any variant, anywhere
Varied ==
    UNION {{Table(n, "colon", p, v) : p \in 1..n, v \in Variants} : n \in 1..MaxVaried}

\* every row of any kind
Mixed ==
    UNION {{[i \in 1..n |-> FileRow(i - 1, kinds[i])] : kinds \in [1..n -> Formats \cup Variants]}
           : n \in 1..MaxMixed}

\* what an uploaded file may hold
Uploaded == Regular("colon") \cup Regular("dot") \cup OneMalformed \cup Varied \cup Mixed

\* what a bundled file may hold
Bundled(path) ==
    IF path = DATA_SOURCES["Ideal Launch"] THEN Regular("dot") ELSE Regular("colon")

-----------------------------------------------------------------------------
(* Timestamp normalisation and parsing (lines 62-70) *)

\* `$`: the end of the string, or just before a newline that ends the string
AtEnd(s, j) == j = Len(s) + 1 \/ (j = Len(s) /\ s[j] = "\n")

\* the lookahead (?=\d{3}$) at the characters after position i
Lookahead(s, i) ==
    /\ i + 3 <= Len(s)
    /\ \A j \in (i + 1)..(i + 3) : s[j] \in Digits
    /\ AtEnd(s, i + 4)

\* the pattern without its `$`: a colon before any three digits
str_replace_unanchored(s) ==
    [i \in 1..Len(s) |->
        IF s[i] = ":" /\ i + 3 <= Len(s) /\ (\A j \in (i + 1)..(i + 3) : s[j] \in Digits)
        THEN "." ELSE s[i]]

\* str.replace(r':(?=\d{3}$)', '.', regex=True) on one string
str_replace(s) ==
    [i \in 1..Len(s) |-> IF s[i] = ":" /\ Lookahead(s, i) THEN "." ELSE s[i]]

NaT == [valid |-> FALSE, clock |-> <<>>, frac |-> <<>>]

\* the time-of-day strings the parser accepts: HH:MM:SS and HH:MM:SS.f+,
\* each string judged on its own
IsClockTime(s) ==
    /\ Len(s) >= 8
    /\ \A j \in {1, 2, 4, 5, 7, 8} : s[j] \in Digits
    /\ s[3] = ":" /\ s[6] = ":"
    /\ \/ Len(s) = 8
       \/ /\ Len(s) >= 10
          /\ s[9] = "."
          /\ \A j \in 10..Len(s) : s[j] \in Digits

\* pd.to_datetime(date + ' ' + time, errors='coerce') on one row
to_datetime(date, time) ==
    IF date = ValidDate /\ IsClockTime(time)
    THEN [valid |-> TRUE, clock |-> SubSeq(time, 1, 8), frac |-> SubSeq(time, 10, Len(time))]
    ELSE NaT

isnull(r) == ~r.datetime.valid

-----------------------------------------------------------------------------
(* Source selection and loading (lines 33-51) *)

\* the selectbox alone decides
SourceOfSelected(up, sel) == DATA_SOURCES[sel]

\* line 38: the upload wins over the selectbox
SourceOf(up, sel) == IF up # "None" THEN UPLOAD ELSE DATA_SOURCES[sel]

\* lines 40 and 44
NameOf(up, sel) == IF up # "None" THEN "Uploaded Data" ELSE sel

\* pd.read_csv(src): the tables the read can return.  load_data is cached
\* per path; a run gets a copy of what the read of that path returned.
read_csv(src) == IF src = UPLOAD THEN Uploaded ELSE Bundled(src)

CsvColumns ==
    {"date", "time", "lon", "lat", "gps_alt", "alt", "acc_x", "acc_y", "acc_z",
     "eu_x", "eu_y", "eu_z", "valve_state"}

Entry(w, b) == [widget |-> w, body |-> b]

\* df.empty
empty(d) == Len(d.rows) = 0 \/ d.columns = {}

-----------------------------------------------------------------------------
(* Figures.  A trace is [name, mode, rows]; rows is the slice of the table *)
(* its x and y (and z) hold, [from, to]: the rows with index from..to-1,   *)
(* in the table's order.  A frame is [name, data]; a slider step is        *)
(* [args, label], args being the frame name it animates to.                *)

NoFig == [kind |-> "none", title |-> "", data |-> <<>>, frames |-> <<>>, steps |-> <<>>]

\* column[:k-1]
SliceShort(rows, k) == [from |-> 0, to |-> Min(k - 1, Len(rows))]

\* column[:k]: the first k rows, or all of them when there are fewer
Slice(rows, k) == [from |-> 0, to |-> Min(k, Len(rows))]

\* column[i] on the default RangeIndex: the row labelled i
At(rows, i) == [from |-> i, to |-> i + 1]

Trace(n, m, r) == [name |-> n, mode |-> m, rows |-> r]

ground_plane == Trace("Ground", "surface", [from |-> 0, to |-> 0])

\* range(10, len(df), 5), lines 117 and 130
FrameIndices3d(n) == Range(FirstFrame, n, FrameStride)

\* lines 90-118
frames3d(rows) ==
    LET ks == FrameIndices3d(Len(rows)) IN
    [i \in 1..Len(ks) |->
        [name |-> ToString(ks[i]),
         data |-> <<ground_plane,
                    Trace("Rocket Path", "lines", Slice(rows, ks[i])),
                    Trace("Rocket", "text+markers", At(rows, ks[i] - 1))>>]]

\* lines 121-131
slider_steps3d(rows) ==
    LET ks == FrameIndices3d(Len(rows)) IN
    [i \in 1..Len(ks) |->
        [args |-> ToString(ks[i]), label |-> ToString(ks[i] * MsPerRow) \o " ms"]]

\* the row labels df.lon[...] is asked for while the 3D figure is built
Lookups3d(n) == {k - 1 : k \in Elems(FrameIndices3d(n))} \cup {RocketRow}

\* lines 134-204
Figure3d(rows) ==
    [kind |-> "3d",
     title |-> "Live Rocket Trajectory with Time Slider",
     data |-> <<ground_plane,
                Trace("Rocket Path", "lines", Slice(rows, FirstFrame)),
                Trace("Rocket", "text+markers", At(rows, RocketRow))>>,
     frames |-> frames3d(rows),
     steps |-> slider_steps3d(rows)]

\* line 215
step_size(n_points) == Max(1, n_points \div MaxFrames)

\* range(step_size, n_points + 1, step_size), line 217
FrameIndices(n_points) == Range(step_size(n_points), n_points + 1, step_size(n_points))

\* strftime("%H:%M")
strftime_hm(dt) == SubSeq(dt.clock, 1, 5)

\* Timestamp.strftime("%H:%M:%S"); NaT.strftime raises ValueError
strftime(dt) == dt.clock

\* df['datetime'].iloc[k-1]
iloc(rows, i) == rows[i + 1]

\* line 227 raises when the last row of some frame has a null datetime
StrftimeRaises(rows) ==
    \E k \in Elems(FrameIndices(Len(rows))) : isnull(iloc(rows, k - 1))

\* lines 217-222
slider_frames(rows, y_cols) ==
    LET ks == FrameIndices(Len(rows)) IN
    [i \in 1..Len(ks) |->
        [name |-> ToString(ks[i]),
         data |-> [j \in 1..Len(y_cols) |-> Trace(y_cols[j], "lines", Slice(rows, ks[i]))]]]

\* lines 224-228
slider_steps(rows) ==
    LET ks == FrameIndices(Len(rows)) IN
    [i \in 1..Len(ks) |->
        [args |-> ToString(ks[i]), label |-> strftime(iloc(rows, ks[i] - 1).datetime)]]

\* lines 211-264: the figure returned, when line 227 does not raise
create_time_slider_frames(rows, y_cols, y_label) ==
    [kind |-> "slider",
     title |-> y_label \o " over Time with Time Slider",
     data |-> [j \in 1..Len(y_cols) |->
                 Trace(y_cols[j], "lines", Slice(rows, step_size(Len(rows))))],
     frames |-> slider_frames(rows, y_cols),
     steps |-> slider_steps(rows)]

\* the four calls, lines 268-286
SliderCharts ==
    <<[subheader |-> "Altitude over Time", y_cols |-> <<"alt">>, y_label |-> "Altitude"],
      [subheader |-> "Accelerometer Data", y_cols |-> <<"acc_x", "acc_y", "acc_z">>,
       y_label |-> "Acceleration"],
      [subheader |-> "Orientation (Euler Angles)", y_cols |-> <<"eu_x", "eu_y", "eu_z">>,
       y_label |-> "Orientation"],
      [subheader |-> "Valve State Over Time", y_cols |-> <<"valve_state">>,
       y_label |-> "Valve State"]>>

\* the four px figures, lines 290-308
StaticCharts ==
    <<[subheader |-> "Altitude over Time", y_cols |-> <<"alt">>, title |-> "Altitude vs Time"],
      [subheader |-> "Accelerometer Data", y_cols |-> <<"acc_x", "acc_y", "acc_z">>,
       title |-> "Acceleration over Time"],
      [subheader |-> "Orientation (Euler Angles)", y_cols |-> <<"eu_x", "eu_y", "eu_z">>,
       title |-> "Orientation over Time"],
      [subheader |-> "Valve State Over Time", y_cols |-> <<"valve_state">>,
       title |-> "Valve State"]>>

\* px.line / px.scatter over the whole table
static_figure(rows, y_cols, title) ==
    [kind |-> "static",
     title |-> title,
     data |-> [j \in 1..Len(y_cols) |-> Trace(y_cols[j], "lines", Slice(rows, Len(rows)))],
     frames |-> <<>>,
     steps |-> <<>>]

-----------------------------------------------------------------------------
(* The run *)

Init ==
    /\ uploaded_file \in {"None", "upload.csv"}
    /\ selected_dataset \in DOMAIN DATA_SOURCES
    /\ reads = {}
    /\ dataset_name = ""
    /\ csv = <<>>
    /\ df = [columns |-> {}, rows |-> <<>>]
    /\ display = <<Entry("title", "Rocket Telemetry Dashboard"),
                   Entry("sidebar.header", "Flight Data Filters")>>
    /\ flagged = <<>>
    /\ fig = NoFig
    /\ called = 0
    /\ accessed = {}
    /\ error = ""
    /\ pc = "load"

\* lines 38-51
LoadData ==
    /\ pc = "load"
    /\ LET src == SourceOf(uploaded_file, selected_dataset)
           name == NameOf(uploaded_file, selected_dataset) IN
       \E t \in read_csv(src) :
          /\ reads' = reads \cup {src}
          /\ csv' = t
          /\ df' = [columns |-> CsvColumns, rows |-> t]
          /\ dataset_name' = name
          /\ display' = display \o
                <<Entry("markdown", "Currently loaded dataset: " \o name),
                  Entry("sidebar.write", "Dataset: " \o name),
                  Entry("sidebar.write", "Total Records: " \o ToString(Len(t)))>>
    /\ pc' = "guard"
    /\ UNCHANGED <<uploaded_file, selected_dataset, flagged, fig, called, accessed, error>>

\* the guard without its st.stop()
EmptyGuardNoStop ==
    /\ pc = "guard"
    /\ display' = IF empty(df)
                  THEN Append(display, Entry("warning", "No data found in dataset."))
                  ELSE display
    /\ pc' = "time"
    /\ UNCHANGED <<uploaded_file, selected_dataset, reads, dataset_name, csv, df,
                   flagged, fig, called, accessed, error>>

\* lines 53-55
EmptyGuard ==
    /\ pc = "guard"
    /\ IF empty(df)
       THEN /\ display' = Append(display, Entry("warning", "No data found in dataset."))
            /\ pc' = "stopped"
       ELSE /\ display' = display
            /\ pc' = "time"
    /\ UNCHANGED <<uploaded_file, selected_dataset, reads, dataset_name, csv, df,
                   flagged, fig, called, accessed, error>>

\* line 62
ProcessTime ==
    /\ pc = "time"
    /\ df' = [df EXCEPT !.rows =
                 [i \in 1..Len(df.rows) |-> [df.rows[i] EXCEPT !.time = str_replace(@)]]]
    /\ pc' = "parse"
    /\ UNCHANGED <<uploaded_file, selected_dataset, reads, dataset_name, csv, display,
                   flagged, fig, called, accessed, error>>

\* lines 65-70
ParseDatetime ==
    /\ pc = "parse"
    /\ LET parsed == [i \in 1..Len(df.rows) |->
                        [id |-> df.rows[i].id,
                         date |-> df.rows[i].date,
                         time |-> df.rows[i].time,
                         datetime |-> to_datetime(df.rows[i].date, df.rows[i].time)]] IN
       /\ df' = [columns |-> df.columns \cup {"datetime"}, rows |-> parsed]
       /\ IF \E i \in 1..Len(parsed) : isnull(parsed[i])
          THEN /\ display' = display \o
                     <<Entry("warning", "Some datetime values could not be parsed."),
                       Entry("dataframe", "rows with a null datetime")>>
               /\ flagged' = SelectSeq(parsed, isnull)
          ELSE /\ display' = display
               /\ flagged' = flagged
    /\ pc' = "trajectory"
    /\ UNCHANGED <<uploaded_file, selected_dataset, reads, dataset_name, csv, fig,
                   called, accessed, error>>

\* lines 79-207; df.lon[i] raises KeyError for a label that is no row
Trajectory3D ==
    /\ pc = "trajectory"
    /\ accessed' = Lookups3d(Len(df.rows))
    /\ IF Lookups3d(Len(df.rows)) \subseteq 0..(Len(df.rows) - 1)
       THEN /\ fig' = Figure3d(df.rows)
            /\ display' = Append(display, Entry("plotly_chart", fig'.title))
            /\ error' = error
            /\ pc' = "sliders"
       ELSE /\ fig' = fig
            /\ display' = display
            /\ error' = "KeyError"
            /\ pc' = "crashed"
    /\ UNCHANGED <<uploaded_file, selected_dataset, reads, dataset_name, csv, df,
                   flagged, called>>

\* one of the four calls of lines 268-286, with its st.plotly_chart
TimeSliderChart ==
    /\ pc = "sliders"
    /\ LET c == SliderCharts[called + 1]
           heads == IF called = 0
                    THEN <<Entry("subheader", "Live Graphs Streaming data"),
                           Entry("subheader", c.subheader)>>
                    ELSE <<Entry("subheader", c.subheader)>> IN
       IF StrftimeRaises(df.rows)
       THEN /\ fig' = fig
            /\ display' = display \o heads
            /\ error' = "ValueError"
            /\ pc' = "crashed"
       ELSE /\ fig' = create_time_slider_frames(df.rows, c.y_cols, c.y_label)
            /\ display' = display \o heads \o <<Entry("plotly_chart", fig'.title)>>
            /\ error' = error
            /\ pc' = IF called + 1 = Len(SliderCharts) THEN "static" ELSE "sliders"
    /\ called' = called + 1
    /\ UNCHANGED <<uploaded_file, selected_dataset, reads, dataset_name, csv, df,
                   flagged, accessed>>

\* lines 288-312
StaticGraphs ==
    /\ pc = "static"
    /\ LET shown(i) == <<Entry("subheader", StaticCharts[i].subheader),
                         Entry("plotly_chart", StaticCharts[i].title)>> IN
       display' = display \o <<Entry("subheader", "Static Graphs all data")>>
                     \o shown(1) \o shown(2) \o shown(3) \o shown(4)
                     \o <<Entry("markdown", "---"),
                          Entry("markdown", "Developed using Streamlit and Plotly")>>
    /\ fig' = static_figure(df.rows, StaticCharts[4].y_cols, StaticCharts[4].title)
    /\ pc' = "done"
    /\ UNCHANGED <<uploaded_file, selected_dataset, reads, dataset_name, csv, df,
                   flagged, called, accessed, error>>

Next ==
    \/ LoadData
    \/ EmptyGuard
    \/ ProcessTime
    \/ ParseDatetime
    \/ Trajectory3D
    \/ TimeSliderChart
    \/ StaticGraphs

Spec == Init /\ [][Next]_vars

-----------------------------------------------------------------------------
(* What the properties below speak of *)

Terminal == pc \in {"done", "stopped", "crashed"}
PastGuard == pc \notin {"load", "guard"}
Normalised == pc \notin {"load", "guard", "time", "stopped"}
Parsed == "datetime" \in df.columns
Animated == fig.kind \in {"3d", "slider"}

\* a call of create_time_slider_frames has ended and no static figure has replaced its result
SliderCallEnded == called >= 1 /\ pc \in {"sliders", "static", "crashed"}

Shown(w, b) == \E i \in 1..Len(display) : display[i] = Entry(w, b)
Charts == Cardinality({i \in 1..Len(display) : display[i].widget = "plotly_chart"})
NoDataWarning == Shown("warning", "No data found in dataset.")
ParseWarning == Shown("warning", "Some datetime values could not be parsed.")

NRows == Len(csv)
Ids(rows) == [i \in 1..Len(rows) |-> rows[i].id]
LineTraces(frame) == {j \in 1..Len(frame.data) : frame.data[j].mode = "lines"}

\* the row count of frame i: where its first line trace ends
FrameRows(i) == fig.frames[i].data[CHOOSE j \in LineTraces(fig.frames[i]) : TRUE].rows.to

-----------------------------------------------------------------------------
(* C1: for every table of n >= 1 rows, create_time_slider_frames uses      *)
(* step = max(1, n div 30) and emits exactly floor(n / step) frames, the   *)
(* i-th named i*step and holding exactly i*step rows of every column.      *)
(* The statement as claimed: once a call on the table has ended, its       *)
(* figure is there with those frames.                                      *)
C1_FramesEmitted ==
    (SliderCallEnded /\ NRows >= 1) =>
        LET step == IF NRows \div 30 >= 1 THEN NRows \div 30 ELSE 1 IN
        /\ fig.kind = "slider"
        /\ Len(fig.frames) = NRows \div step
        /\ \A i \in 1..Len(fig.frames) :
              /\ fig.frames[i].name = ToString(i * step)
              /\ \A j \in 1..Len(fig.frames[i].data) :
                    fig.frames[i].data[j].rows = [from |-> 0, to |-> i * step]

(* C2: in every animation frame list built, the frame named k holds        *)
(* exactly rows 0..k-1 in the table's order, and the frames come in        *)
(* strictly increasing k: each frame properly extends the one before.      *)
C2_GrowingPrefixes ==
    Animated =>
        /\ \A i \in 1..Len(fig.frames) :
              /\ LineTraces(fig.frames[i]) # {}
              /\ \E k \in 1..NRows :
                    /\ fig.frames[i].name = ToString(k)
                    /\ \A j \in LineTraces(fig.frames[i]) :
                          fig.frames[i].data[j].rows = [from |-> 0, to |-> k]
        /\ \A i \in 1..(Len(fig.frames) - 1) : FrameRows(i) < FrameRows(i + 1)

C2_Witness ==
    /\ fig.kind = "slider"
    /\ NRows = 61
    /\ Len(fig.frames) = 30
    /\ FrameRows(1) = 2 /\ FrameRows(30) = 60

(* C3: for every row count n >= 1, create_time_slider_frames emits at most *)
(* 30 frames and at most 30 slider steps.                                  *)
C3_AtMostThirtyFrames ==
    (fig.kind = "slider" /\ NRows >= 1) =>
        Len(fig.frames) <= 30 /\ Len(fig.steps) <= 30

(* C4: when rows of a non-empty dataset fail to parse, the run shows the   *)
(* warning with those rows, keeps every row (count and order unchanged,    *)
(* the failing rows with a null datetime) and runs to completion: the 3D   *)
(* chart, the four animated and the four static charts are all rendered.   *)
(* Stated for the tables of ten rows and more: a shorter table ends the    *)
(* run at the 3D chart already, parseable or not (C9).                     *)
C4_RunCompletesWithBadRows ==
    (Terminal /\ NRows >= 10 /\ Parsed /\ \E i \in 1..Len(df.rows) : isnull(df.rows[i])) =>
        /\ ParseWarning
        /\ Ids(flagged) = Ids(SelectSeq(df.rows, isnull))
        /\ Ids(df.rows) = Ids(csv)
        /\ pc = "done"
        /\ Charts = 9

(* C5: a dataset of zero rows shows the 'No data found' warning and stops: *)
(* no timestamp is normalised or parsed, no frame built, no chart          *)
(* rendered; with at least one row the warning is not shown and the run    *)
(* does not stop there.                                                    *)
C5_EmptyStops ==
    PastGuard =>
        /\ NRows = 0 =>
              /\ pc = "stopped"
              /\ NoDataWarning
              /\ df = [columns |-> CsvColumns, rows |-> csv]
              /\ fig.kind = "none"
              /\ Charts = 0
              /\ called = 0 /\ accessed = {}
              /\ error = ""
        /\ NRows >= 1 => (pc # "stopped" /\ ~NoDataWarning)

C5_Witness == pc = "stopped" /\ NRows = 0 /\ NoDataWarning

\* the time string the claim's normalisation gives: a colon directly before
\* exactly three trailing digits becomes a '.'
TrailingDigitsFixed(s) ==
    IF /\ Len(s) >= 4
       /\ s[Len(s) - 3] = ":"
       /\ \A j \in (Len(s) - 2)..Len(s) : s[j] \in Digits
    THEN [s EXCEPT ![Len(s) - 3] = "."]
    ELSE s

\* the same, the three digits ending the field or followed by one final newline
TrailingDigitsOrNewlineFixed(s) ==
    IF /\ Len(s) >= 5
       /\ s[Len(s)] = "\n"
       /\ s[Len(s) - 4] = ":"
       /\ \A j \in (Len(s) - 3)..(Len(s) - 1) : s[j] \in Digits
    THEN [s EXCEPT ![Len(s) - 4] = "."]
    ELSE TrailingDigitsFixed(s)

\* the normalised 'date time' string of row i parses
Parses(i) == df.rows[i].date = ValidDate /\ IsClockTime(df.rows[i].time)

\* the flagged rows are exactly the unparseable ones, the others have a datetime,
\* and a table that parses throughout has no warning
FlaggedExactly ==
    /\ Ids(df.rows) = Ids(csv)
    /\ {flagged[i].id : i \in 1..Len(flagged)} = {df.rows[i].id : i \in {j \in 1..NRows : ~Parses(j)}}
    /\ \A i \in 1..NRows : Parses(i) <=> df.rows[i].datetime.valid
    /\ ParseWarning <=> \E i \in 1..NRows : ~Parses(i)
    /\ (\A i \in 1..NRows : Parses(i)) => (flagged = <<>> /\ ~Shown("dataframe", "rows with a null datetime"))

(* C6 as claimed: the rows flagged are exactly the rows whose normalised   *)
(* 'date time' string is unparseable, every other row has a datetime, a    *)
(* table that parses throughout has none null and no warning; and the      *)
(* normalisation rewrites only a colon directly before exactly three       *)
(* trailing digits, leaving every other time string unchanged.             *)
C6_Original ==
    /\ Parsed => FlaggedExactly
    /\ Normalised =>
          \A i \in 1..NRows : df.rows[i].time = TrailingDigitsFixed(csv[i].time)

(* C6 as amended: the same, the normalisation rewriting a colon directly   *)
(* before three digits that end the time field or are followed only by a   *)
(* single newline ending it.                                               *)
C6_Amended ==
    /\ Parsed => FlaggedExactly
    /\ Normalised =>
          \A i \in 1..NRows : df.rows[i].time = TrailingDigitsOrNewlineFixed(csv[i].time)

C6_Witness ==
    /\ Parsed
    /\ \E i, j, k \in 1..NRows :
          /\ df.rows[i].time # csv[i].time /\ df.rows[i].datetime.valid
          /\ df.rows[j].time = csv[j].time /\ isnull(df.rows[j])
          /\ csv[k].time[Len(csv[k].time)] = "\n" /\ df.rows[k].time # csv[k].time
    /\ Len(flagged) = 2

(* C7: the table comes from exactly one source: with an upload, the        *)
(* uploaded file, shown as 'Uploaded Data' whatever the selectbox says,    *)
(* and the bundled file is not read; without one, the bundled file mapped  *)
(* to the selected name, shown under that name.                            *)
C7_OneSource ==
    pc # "load" =>
        /\ Cardinality(reads) = 1
        /\ uploaded_file # "None" =>
              /\ reads = {UPLOAD}
              /\ csv \in Uploaded
              /\ dataset_name = "Uploaded Data"
              /\ Shown("markdown", "Currently loaded dataset: Uploaded Data")
        /\ uploaded_file = "None" =>
              /\ reads = {DATA_SOURCES[selected_dataset]}
              /\ csv \in Bundled(DATA_SOURCES[selected_dataset])
              /\ dataset_name = selected_dataset
              /\ Shown("markdown", "Currently loaded dataset: " \o selected_dataset)

C7_Witness ==
    /\ pc = "guard"
    /\ uploaded_file # "None"
    /\ selected_dataset = "Sensor Data"
    /\ reads = {UPLOAD}
    /\ dataset_name = "Uploaded Data"

(* C8: in each figure the slider steps match the frames one to one: as     *)
(* many steps as frames, the i-th step targeting the i-th frame's name;    *)
(* in a time-slider figure the i-th label is the HH:MM:SS time of the      *)
(* last row (index k-1) of the i-th frame.                                 *)
C8_StepsMatchFrames ==
    Animated =>
        /\ Len(fig.steps) = Len(fig.frames)
        /\ \A i \in 1..Len(fig.frames) :
              /\ fig.steps[i].args = fig.frames[i].name
              /\ fig.kind = "slider" =>
                    /\ FrameRows(i) \in 1..NRows
                    /\ fig.steps[i].label = SubSeq(csv[FrameRows(i)].time, 1, 8)

C8_Witness ==
    /\ fig.kind = "slider"
    /\ Len(fig.steps) = 59
    /\ fig.steps[1].label # fig.steps[59].label
    /\ fig.steps[59].args = "59"

(* C9: for every dataset of n >= 1 rows, every row index read while the    *)
(* 3D trajectory figure is built (row 9, and row k-1 for each frame k)     *)
(* lies in 0..n-1: the figure is built without an out-of-range access.     *)
C9_LookupsInRange ==
    (NRows >= 1 /\ accessed # {}) =>
        /\ accessed \subseteq 0..(NRows - 1)
        /\ error # "KeyError"

(* C10: for every table of n >= 1 rows, the last frame of                  *)
(* create_time_slider_frames leaves out fewer than step rows (n minus its  *)
(* row count is in 0..step-1), holds all n rows exactly when step divides  *)
(* n, and the frame list is never empty.  The statement as claimed: once   *)
(* a call on the table has ended, its figure is there with such a list.    *)
C10_LastFrame ==
    (SliderCallEnded /\ NRows >= 1) =>
        LET step == IF NRows \div 30 >= 1 THEN NRows \div 30 ELSE 1 IN
        /\ fig.kind = "slider"
        /\ Len(fig.frames) >= 1
        /\ NRows - FrameRows(Len(fig.frames)) \in 0..(step - 1)
        /\ FrameRows(Len(fig.frames)) = NRows <=> NRows % step = 0

====
